---------------------------- MODULE Spec2Model ----------------------------
(***************************************************************************)
(* A model of the Pay100 client (100pay.js, src/index.ts): the signer, the *)
(* header builder, the error normalizer, the request executor, verify()    *)
(* and the resource facades that delegate to request().                    *)
(*                                                                         *)
(* JavaScript values are tagged records [t, v]; an object is the sequence  *)
(* of its <<key, value>> pairs in insertion order.  Text is a TLA+ string, *)
(* except the secret key, which is a sequence of one-character strings so  *)
(* that includes(";") and split(";") are computed character by character.  *)
(* HMAC-SHA256 is collision free: a digest names its key and its message. *)
(***************************************************************************)
EXTENDS Integers, Sequences, FiniteSets, TLC

VARIABLES config, now, calls, probe

vars == <<config, now, calls, probe>>

---------------------------------------------------------------------------
(* JavaScript values *)

Undefined == [t |-> "undefined", v |-> 0]

Null == [t |-> "null", v |-> 0]

JStr(s) == [t |-> "string", v |-> s]

JNum(n) == [t |-> "number", v |-> n]

JBool(b) == [t |-> "boolean", v |-> b]

JObj(fs) == [t |-> "object", v |-> fs]

\* An array: the sequence of its elements
JArr(xs) == [t |-> "array", v |-> xs]

\* A property whose value is the object that is being examined itself
\* (const o = {}; o.self = o): the one cyclic shape the model carries.
Self == [t |-> "self", v |-> 0]

EmptyObj == JObj(<<>>)

\* typeof x
TypeOf(x) ==
  CASE x.t = "null" -> "object"
    [] x.t = "self" -> "object"
    [] x.t = "array" -> "object"
    [] x.t = "error" -> "object"
    [] OTHER -> x.t

\* ToBoolean(x): undefined, null, false, 0 and "" are falsy
Truthy(x) ==
  CASE x.t = "undefined" -> FALSE
    [] x.t = "null" -> FALSE
    [] x.t = "boolean" -> x.v
    [] x.t = "number" -> x.v # 0
    [] x.t = "string" -> x.v # ""
    [] OTHER -> TRUE

\* k in o, for an object o and a property name k that is no array index
HasKey(o, k) == o.t = "object" /\ \E i \in 1..Len(o.v) : o.v[i][1] = k

\* o[k]: the value of property k, undefined when o has no such property
Get(o, k) ==
  IF HasKey(o, k)
  THEN o.v[CHOOSE i \in 1..Len(o.v) : o.v[i][1] = k][2]
  ELSE Undefined

\* The keys of an object, in insertion order
Keys(o) == [i \in 1..Len(o.v) |-> o.v[i][1]]

\* o with property k set to x: in place when o has k, appended otherwise
SetKey(o, k, x) ==
  IF HasKey(o, k)
  THEN JObj([i \in 1..Len(o.v) |-> IF o.v[i][1] = k THEN <<k, x>> ELSE o.v[i]])
  ELSE JObj(Append(o.v, <<k, x>>))

\* { ...a, ...b } for objects a and b
RECURSIVE SpreadPairs(_, _)
SpreadPairs(a, ps) ==
  IF ps = <<>> THEN a
  ELSE SpreadPairs(SetKey(a, Head(ps)[1], Head(ps)[2]), Tail(ps))

\* The own enumerable properties that { ...x } copies: those of an object;
\* undefined, null, a boolean and a number have none.  (A non-empty string
\* would contribute its characters by index; no payload of the model
\* carries one in its headers property.)
OwnPairs(x) == IF x.t = "object" THEN x.v ELSE <<>>

Spread(a, x) == SpreadPairs(a, OwnPairs(x))

---------------------------------------------------------------------------
(* Text *)

Digits == <<"0", "1", "2", "3", "4", "5", "6", "7", "8", "9">>

\* Number.prototype.toString() of a non-negative integer
RECURSIVE NumToString(_)
NumToString(n) ==
  IF n < 10 THEN Digits[n + 1]
  ELSE NumToString(n \div 10) \o Digits[(n % 10) + 1]

\* The characters of a key joined into text
RECURSIVE Str(_)
Str(cs) == IF cs = <<>> THEN "" ELSE Head(cs) \o Str(Tail(cs))

\* JSON.stringify: there is a cycle below x
RECURSIVE HasCycle(_)
HasCycle(x) ==
  CASE x.t = "self" -> TRUE
    [] x.t = "object" -> \E i \in 1..Len(x.v) : HasCycle(x.v[i][2])
    [] x.t = "array" -> \E i \in 1..Len(x.v) : HasCycle(x.v[i])
    [] OTHER -> FALSE

\* JSON.stringify of an acyclic value; a property whose value is undefined
\* is left out, the others are written in insertion order
RECURSIVE Stringify(_)
RECURSIVE StringifyPairs(_, _)
RECURSIVE StringifyItems(_, _)
StringifyPairs(ps, first) ==
  IF ps = <<>> THEN ""
  ELSE IF Head(ps)[2].t = "undefined" THEN StringifyPairs(Tail(ps), first)
  ELSE (IF first THEN "" ELSE ",")
       \o "\"" \o Head(ps)[1] \o "\":" \o Stringify(Head(ps)[2])
       \o StringifyPairs(Tail(ps), FALSE)

\* The elements of an array; undefined is written as null
StringifyItems(xs, first) ==
  IF xs = <<>> THEN ""
  ELSE (IF first THEN "" ELSE ",")
       \o (IF Head(xs).t = "undefined" THEN "null" ELSE Stringify(Head(xs)))
       \o StringifyItems(Tail(xs), FALSE)

Stringify(x) ==
  CASE x.t = "string" -> "\"" \o x.v \o "\""
    [] x.t = "number" -> NumToString(x.v)
    [] x.t = "boolean" -> (IF x.v THEN "true" ELSE "false")
    [] x.t = "null" -> "null"
    [] x.t = "object" -> "{" \o StringifyPairs(x.v, TRUE) \o "}"
    [] x.t = "array" -> "[" \o StringifyItems(x.v, TRUE) \o "]"
    [] OTHER -> "undefined"

\* What an expression evaluates to: a value, or a thrown error
Return(x) == [threw |-> FALSE, val |-> x, err |-> Undefined]

Throw(e) == [threw |-> TRUE, val |-> Undefined, err |-> e]

\* new Error(message): an error object, with the fields the client reads.
\* kind is the class ("Error", "TypeError", "AxiosError",
\* "PaymentVerificationError"); response is what an AxiosError carries.
NewError(kind, message) ==
  [t |-> "error", kind |-> kind, message |-> message,
   response |-> Undefined, status |-> Undefined, data |-> Undefined]

\* JSON.stringify(x) where it can throw: a cyclic structure is a TypeError
JSONStringify(x) ==
  IF HasCycle(x)
  THEN Throw(NewError("TypeError", "Converting circular structure to JSON"))
  ELSE Return(JStr(Stringify(x)))

---------------------------------------------------------------------------
(* The client: src/index.ts *)

DEFAULT_BASE_URL == "https://api.100pay.co"

\* The secret key of a configuration: absent, or its characters
NoKey == [t |-> "undefined", cs |-> <<>>]

Key(cs) == [t |-> "string", cs |-> cs]

\* A constructor that keeps the default base URL whatever is supplied
Pay100DefaultBaseUrl(publicKey, secretKey, baseUrl) ==
  [publicKey |-> publicKey,
   secretKey |-> secretKey,
   baseUrl |-> DEFAULT_BASE_URL]

\* new Pay100({ publicKey, secretKey, baseUrl = BASE_URL }); baseUrl is
\* Undefined when the caller supplies none
Pay100(publicKey, secretKey, baseUrl) ==
  [publicKey |-> publicKey,
   secretKey |-> secretKey,
   baseUrl |-> IF baseUrl.t = "undefined" THEN DEFAULT_BASE_URL ELSE baseUrl.v]

\* if (this.secretKey): a key that is present and not the empty string
KeyTruthy(k) == k.t = "string" /\ k.cs # <<>>

\* String.prototype.includes for one character
Includes(cs, ch) == \E i \in 1..Len(cs) : cs[i] = ch

\* String.prototype.split for a one-character separator: the parts between
\* the separators, in order; a text without separator is its only part
RECURSIVE Split(_, _)
Split(cs, sep) ==
  IF ~Includes(cs, sep) THEN <<cs>>
  ELSE LET i == CHOOSE j \in 1..Len(cs) :
                  cs[j] = sep /\ \A h \in 1..(j - 1) : cs[h] # sep
       IN <<SubSeq(cs, 1, i - 1)>> \o Split(SubSeq(cs, i + 1, Len(cs)), sep)

\* crypto.createHmac("sha256", key).update(message).digest("hex"): the digest
\* is written as the text that names its key and message ("|" occurs in
\* neither), so that equal digests have equal keys and equal messages
HmacSha256Hex(key, message) == "hmac-sha256-hex(" \o key \o "|" \o message \o ")"

\* A signer that takes the third part of any key of three or more parts
SigningSecretOfThreeOrMore(secretKey) ==
  IF secretKey.t = "string" /\ Includes(secretKey.cs, ";")
  THEN LET secretKeyParts == Split(secretKey.cs, ";")
       IN IF Len(secretKeyParts) >= 3 THEN Key(secretKeyParts[3]) ELSE secretKey
  ELSE secretKey

\* createSignature, lines 363-371: the signing secret of a secret key
SigningSecret(secretKey) ==
  IF secretKey.t = "string" /\ Includes(secretKey.cs, ";")
  THEN LET secretKeyParts == Split(secretKey.cs, ";")
       IN IF Len(secretKeyParts) = 3 THEN Key(secretKeyParts[3]) ELSE secretKey
  ELSE secretKey

\* A signer that leaves the timestamp out of the signed message
createSignaturePayloadOnly(cfg, payload, clock) ==
  LET timestamp == NumToString(clock)
      signingSecret == SigningSecret(cfg.secretKey)
  IN IF ~KeyTruthy(signingSecret)
     THEN Throw(NewError("Error", "Secret key is required for signing"))
     ELSE LET json == JSONStringify(payload)
          IN IF json.threw THEN json
             ELSE Return([timestamp |-> timestamp,
                          signature |-> HmacSha256Hex(Str(signingSecret.cs),
                                                      json.val.v)])

\* createSignature(payload) at Date.now() = clock
createSignature(cfg, payload, clock) ==
  LET timestamp == NumToString(clock)
      signingSecret == SigningSecret(cfg.secretKey)
  IN IF ~KeyTruthy(signingSecret)
     THEN Throw(NewError("Error", "Secret key is required for signing"))
     ELSE LET json == JSONStringify(payload)
          IN IF json.threw THEN json
             ELSE Return([timestamp |-> timestamp,
                          signature |-> HmacSha256Hex(Str(signingSecret.cs),
                                                      timestamp \o json.val.v)])

\* The headers of secret mode, lines 398-405
SecretHeaders(cfg, payload, signed) ==
  Spread(JObj(<< <<"api-key", JStr(cfg.publicKey)>>,
                 <<"x-secret-key", JStr(Str(cfg.secretKey.cs))>>,
                 <<"x-timestamp", JStr(signed.timestamp)>>,
                 <<"x-signature", JStr(signed.signature)>>,
                 <<"Content-Type", JStr("application/json")>> >>),
         IF Truthy(Get(payload, "headers")) THEN Get(payload, "headers")
         ELSE EmptyObj)

\* The headers of public mode, lines 409-412
PublicHeaders(cfg) ==
  JObj(<< <<"api-key", JStr(cfg.publicKey)>>,
          <<"Content-Type", JStr("application/json")>> >>)

\* A header builder that signs whether or not the client has a secret key
getHeadersAlwaysSigning(cfg, payload, clock) ==
  LET signed == createSignature(cfg, payload, clock)
  IN IF signed.threw THEN signed
     ELSE Return(SecretHeaders(cfg, payload, signed.val))

\* A header builder that never signs
getHeadersPublicOnly(cfg, payload, clock) == Return(PublicHeaders(cfg))

\* getHeaders(payload) at Date.now() = clock
getHeaders(cfg, payload, clock) ==
  IF KeyTruthy(cfg.secretKey)
  THEN LET signed == createSignature(cfg, payload, clock)
       IN IF signed.threw THEN signed
          ELSE Return(SecretHeaders(cfg, payload, signed.val))
  ELSE Return(PublicHeaders(cfg))

---------------------------------------------------------------------------
(* extractErrorMessage, lines 817-894 *)

\* What a property read inside extractErrorMessage(root) yields: a property
\* that refers back to the examined object yields that object
Resolve(root, x) == IF x.t = "self" THEN root ELSE x

Read(root, o, k) == Resolve(root, Get(o, k))

\* One rule of the cascade: it returns a message, or falls through
Hit(x) == [hit |-> TRUE, val |-> x]

Miss == [hit |-> FALSE, val |-> Undefined]

\* lines 831-834: data.message
MessageRule(data) ==
  IF HasKey(data, "message") /\ TypeOf(Read(data, data, "message")) = "string"
  THEN Hit(Read(data, data, "message"))
  ELSE Miss

\* An error rule that looks at error.code before error.message
ErrorRuleCodeFirst(data) ==
  IF ~HasKey(data, "error") THEN Miss
  ELSE LET error == Read(data, data, "error")
       IN IF TypeOf(error) = "string" THEN Hit(error)
          ELSE IF Truthy(error) /\ TypeOf(error) = "object"
          THEN IF HasKey(error, "code")
                  /\ TypeOf(Read(data, error, "code")) = "string"
               THEN Hit(JStr("Error code: " \o Read(data, error, "code").v))
               ELSE IF HasKey(error, "message")
                       /\ TypeOf(Read(data, error, "message")) = "string"
               THEN Hit(Read(data, error, "message"))
               ELSE Miss
          ELSE Miss

\* An error rule that ends the cascade when error is present and yields
\* no message
ErrorRuleStopping(data) ==
  IF ~HasKey(data, "error") THEN Miss
  ELSE LET error == Read(data, data, "error")
       IN IF TypeOf(error) = "string" THEN Hit(error)
          ELSE IF Truthy(error) /\ TypeOf(error) = "object"
          THEN IF HasKey(error, "message")
                  /\ TypeOf(Read(data, error, "message")) = "string"
               THEN Hit(Read(data, error, "message"))
               ELSE IF HasKey(error, "code")
                       /\ TypeOf(Read(data, error, "code")) = "string"
               THEN Hit(JStr("Error code: " \o Read(data, error, "code").v))
               ELSE Hit(JStr("Unknown error"))
          ELSE Hit(JStr("Unknown error"))

\* lines 836-858: data.error
ErrorRule(data) ==
  IF ~HasKey(data, "error") THEN Miss
  ELSE LET error == Read(data, data, "error")
       IN IF TypeOf(error) = "string" THEN Hit(error)
          ELSE IF Truthy(error) /\ TypeOf(error) = "object"
          THEN IF HasKey(error, "message")
                  /\ TypeOf(Read(data, error, "message")) = "string"
               THEN Hit(Read(data, error, "message"))
               ELSE IF HasKey(error, "code")
                       /\ TypeOf(Read(data, error, "code")) = "string"
               THEN Hit(JStr("Error code: " \o Read(data, error, "code").v))
               ELSE Miss
          ELSE Miss

\* lines 860-881: data.data
DataRule(data) ==
  IF HasKey(data, "data") /\ Truthy(Read(data, data, "data"))
     /\ TypeOf(Read(data, data, "data")) = "object"
  THEN LET nestedData == Read(data, data, "data")
       IN IF HasKey(nestedData, "message")
             /\ TypeOf(Read(data, nestedData, "message")) = "string"
          THEN Hit(Read(data, nestedData, "message"))
          ELSE IF HasKey(nestedData, "error")
                  /\ Truthy(Read(data, nestedData, "error"))
                  /\ TypeOf(Read(data, nestedData, "error")) = "object"
          THEN LET nestedError == Read(data, nestedData, "error")
               IN IF HasKey(nestedError, "message")
                     /\ TypeOf(Read(data, nestedError, "message")) = "string"
                  THEN Hit(Read(data, nestedError, "message"))
                  ELSE Miss
          ELSE Miss
  ELSE Miss

\* lines 883-886: data.statusText
StatusTextRule(data) ==
  IF HasKey(data, "statusText")
     /\ TypeOf(Read(data, data, "statusText")) = "string"
  THEN Hit(Read(data, data, "statusText"))
  ELSE Miss

\* A last rule without its try/catch
StringifyRuleUncaught(data) ==
  LET json == JSONStringify(data)
  IN IF json.threw THEN json
     ELSE Return(JStr("Error details: " \o json.val.v))

\* lines 888-893: try { JSON.stringify } catch { fallback }
StringifyRule(data) ==
  LET json == JSONStringify(data)
  IN IF json.threw THEN Return(JStr("Unknown error occurred"))
     ELSE Return(JStr("Error details: " \o json.val.v))

extractErrorMessage(data) ==
  IF TypeOf(data) = "string" THEN Return(data)
  ELSE IF TypeOf(data) # "object" \/ data.t = "null"
  THEN Return(JStr("Unknown error"))
  ELSE IF MessageRule(data).hit THEN Return(MessageRule(data).val)
  ELSE IF ErrorRule(data).hit THEN Return(ErrorRule(data).val)
  ELSE IF DataRule(data).hit THEN Return(DataRule(data).val)
  ELSE IF StatusTextRule(data).hit THEN Return(StatusTextRule(data).val)
  ELSE StringifyRule(data)

---------------------------------------------------------------------------
(* request, lines 762-809 *)

\* An AxiosError with the response it carries (undefined when none arrived)
AxiosError(message, response) ==
  [NewError("AxiosError", message) EXCEPT !.response = response]

\* axios.isAxiosError(error)
IsAxiosError(error) == error.t = "error" /\ error.kind = "AxiosError"

\* error instanceof Error
InstanceOfError(error) == error.t = "error"

\* axiosError.response?.data
ResponseData(axiosError) ==
  IF axiosError.response.t \in {"undefined", "null"} THEN Undefined
  ELSE Get(axiosError.response, "data")

API_REQUEST_FAILED == "API Request Failed: "

\* A dispatch that sends the payload as the body whatever the method
RequestConfigBodyAlways(cfg, method, endpoint, data, clock) ==
  LET headers == getHeaders(cfg, data, clock)
  IN IF headers.threw THEN headers
     ELSE Return([method |-> method,
                  url |-> cfg.baseUrl \o endpoint,
                  headers |-> headers.val,
                  data |-> data,
                  params |-> Undefined])

\* lines 768-777: the call handed to axios, or what getHeaders threw
RequestConfig(cfg, method, endpoint, data, clock) ==
  LET url == cfg.baseUrl \o endpoint
      headers == getHeaders(cfg, data, clock)
  IN IF headers.threw THEN headers
     ELSE Return([method |-> method,
                  url |-> url,
                  headers |-> headers.val,
                  data |-> IF method # "GET" THEN data ELSE Undefined,
                  params |-> IF method = "GET" THEN data ELSE Undefined])

\* A success path that takes any falsy success property for a failure
RequestTryFalsySuccess(body) ==
  IF Truthy(body) /\ TypeOf(body) = "object" /\ HasKey(body, "success")
     /\ ~Truthy(Get(body, "success"))
  THEN LET errorMessage == extractErrorMessage(body)
       IN IF errorMessage.threw THEN errorMessage
          ELSE Throw(NewError("Error", API_REQUEST_FAILED \o errorMessage.val.v))
  ELSE Return(body)

\* lines 779-792: the rest of the try block once axios has resolved
RequestTry(body) ==
  IF Truthy(body) /\ TypeOf(body) = "object" /\ HasKey(body, "success")
     /\ Get(body, "success") = JBool(FALSE)
  THEN LET errorMessage == extractErrorMessage(body)
       IN IF errorMessage.threw THEN errorMessage
          ELSE Throw(NewError("Error", API_REQUEST_FAILED \o errorMessage.val.v))
  ELSE Return(body)

\* A catch block that reports the transport's message only
RequestCatchTransportMessage(error) ==
  IF IsAxiosError(error)
  THEN Throw(NewError("Error", API_REQUEST_FAILED \o error.message))
  ELSE Throw(error)

\* A catch block that normalizes every body that is present, a falsy one
\* too: response.data !== undefined
RequestCatchAnyBody(error) ==
  IF IsAxiosError(error)
  THEN LET errorMessage ==
             IF ResponseData(error).t # "undefined"
             THEN extractErrorMessage(ResponseData(error))
             ELSE Return(JStr(error.message))
       IN IF errorMessage.threw THEN errorMessage
          ELSE Throw(NewError("Error", API_REQUEST_FAILED \o errorMessage.val.v))
  ELSE Throw(error)

\* A catch block that wraps every Error it catches, its own included
RequestCatchWrapAll(error) ==
  IF IsAxiosError(error)
  THEN LET errorMessage ==
             IF Truthy(ResponseData(error))
             THEN extractErrorMessage(ResponseData(error))
             ELSE Return(JStr(error.message))
       IN IF errorMessage.threw THEN errorMessage
          ELSE Throw(NewError("Error", API_REQUEST_FAILED \o errorMessage.val.v))
  ELSE IF InstanceOfError(error)
  THEN Throw(NewError("Error", API_REQUEST_FAILED \o error.message))
  ELSE Throw(error)

\* lines 793-808: the catch block
RequestCatch(error) ==
  IF IsAxiosError(error)
  THEN LET errorMessage ==
             IF Truthy(ResponseData(error))
             THEN extractErrorMessage(ResponseData(error))
             ELSE Return(JStr(error.message))
       IN IF errorMessage.threw THEN errorMessage
          ELSE Throw(NewError("Error", API_REQUEST_FAILED \o errorMessage.val.v))
  ELSE Throw(error)

\* request() up to its await: the call to dispatch, or the error raised
RequestBegin(cfg, method, endpoint, data, clock) ==
  LET c == RequestConfig(cfg, method, endpoint, data, clock)
  IN IF c.threw THEN RequestCatch(c.err) ELSE c

\* request() after its await, for a transport outcome
RequestEnd(outcome) ==
  IF outcome.threw THEN RequestCatch(outcome.err)
  ELSE LET r == RequestTry(outcome.val)
       IN IF r.threw THEN RequestCatch(r.err) ELSE r

---------------------------------------------------------------------------
(* verify, lines 422-490 *)

VERIFY_FALLBACK ==
  "Something went wrong, be sure you supplied a valid payment id."

ACCESS_DENIED == "Access Denied, Invalid KEY supplied"

INVALID_PAYMENT_ID == "invalid payment id supplied"

\* new PaymentVerificationError(message), lines 316-326
PaymentVerificationError(message) ==
  [NewError("PaymentVerificationError", message)
     EXCEPT !.status = JStr("error"), !.data = EmptyObj]

\* A verify() that builds its headers without the payload: getHeaders()
VerifyConfigUnsignedPayload(cfg, transactionId, clock) ==
  LET payload == JObj(<< <<"transactionId", JStr(transactionId)>> >>)
      headers == getHeaders(cfg, EmptyObj, clock)
  IN IF headers.threw THEN headers
     ELSE Return([method |-> "POST",
                  url |-> cfg.baseUrl \o "/api/v1/pay/crypto/payment/"
                            \o transactionId,
                  headers |-> headers.val,
                  data |-> payload,
                  params |-> Undefined])

\* lines 424-431
VerifyConfig(cfg, transactionId, clock) ==
  LET payload == JObj(<< <<"transactionId", JStr(transactionId)>> >>)
      headers == getHeaders(cfg, payload, clock)
  IN IF headers.threw THEN headers
     ELSE Return([method |-> "POST",
                  url |-> cfg.baseUrl \o "/api/v1/pay/crypto/payment/"
                            \o transactionId,
                  headers |-> headers.val,
                  data |-> payload,
                  params |-> Undefined])

\* A success path that returns the sentinel's message for both sentinels
VerifyTrySentinelMessage(body) ==
  IF ~Truthy(body)
  THEN Return(JObj(<< <<"status", JStr("error")>>, <<"data", Null>>,
                      <<"message", JStr(VERIFY_FALLBACK)>> >>))
  ELSE IF TypeOf(body) = "string"
          /\ body.v \in {ACCESS_DENIED, INVALID_PAYMENT_ID}
  THEN Return(JObj(<< <<"status", JStr("error")>>, <<"data", Null>>,
                      <<"message", body>> >>))
  ELSE Return(JObj(<< <<"status", JStr("success")>>,
                      <<"data", IF TypeOf(body) = "object" THEN body ELSE Null>> >>))

\* A success path that hands a body that is no object on as {}
VerifyTryEmptyData(body) ==
  IF ~Truthy(body)
  THEN Return(JObj(<< <<"status", JStr("error")>>, <<"data", Null>>,
                      <<"message", JStr(VERIFY_FALLBACK)>> >>))
  ELSE IF TypeOf(body) = "string" /\ body.v = ACCESS_DENIED
  THEN Return(JObj(<< <<"status", JStr("error")>>, <<"data", Null>>,
                      <<"message", JStr(ACCESS_DENIED)>> >>))
  ELSE IF TypeOf(body) = "string" /\ body.v = INVALID_PAYMENT_ID
  THEN Return(JObj(<< <<"status", JStr("error")>>, <<"data", Null>> >>))
  ELSE Return(JObj(<< <<"status", JStr("success")>>,
                      <<"data", IF TypeOf(body) = "object" THEN body
                                ELSE EmptyObj>> >>))

\* A success path that applies the logical-failure check of request()
VerifyTryLogicalFailure(body) ==
  IF ~Truthy(body)
  THEN Return(JObj(<< <<"status", JStr("error")>>, <<"data", Null>>,
                      <<"message", JStr(VERIFY_FALLBACK)>> >>))
  ELSE IF TypeOf(body) = "string" /\ body.v = ACCESS_DENIED
  THEN Return(JObj(<< <<"status", JStr("error")>>, <<"data", Null>>,
                      <<"message", JStr(ACCESS_DENIED)>> >>))
  ELSE IF TypeOf(body) = "string" /\ body.v = INVALID_PAYMENT_ID
  THEN Return(JObj(<< <<"status", JStr("error")>>, <<"data", Null>> >>))
  ELSE IF TypeOf(body) = "object" /\ HasKey(body, "success")
          /\ Get(body, "success") = JBool(FALSE)
  THEN Throw(NewError("Error", API_REQUEST_FAILED \o extractErrorMessage(body).val.v))
  ELSE Return(JObj(<< <<"status", JStr("success")>>,
                      <<"data", IF TypeOf(body) = "object" THEN body ELSE Null>> >>))

\* lines 433-474
VerifyTry(body) ==
  IF ~Truthy(body)
  THEN Return(JObj(<< <<"status", JStr("error")>>, <<"data", Null>>,
                      <<"message", JStr(VERIFY_FALLBACK)>> >>))
  ELSE IF TypeOf(body) = "string" /\ body.v = ACCESS_DENIED
  THEN Return(JObj(<< <<"status", JStr("error")>>, <<"data", Null>>,
                      <<"message", JStr(ACCESS_DENIED)>> >>))
  ELSE IF TypeOf(body) = "string" /\ body.v = INVALID_PAYMENT_ID
  THEN Return(JObj(<< <<"status", JStr("error")>>, <<"data", Null>> >>))
  ELSE LET responseData == body
           transactionData ==
             IF Truthy(responseData) /\ TypeOf(responseData) = "object"
             THEN responseData ELSE Null
       IN Return(JObj(<< <<"status", JStr("success")>>,
                         <<"data", transactionData>> >>))

\* A catch that wraps transport errors only and rethrows the others, as the
\* catch of request() does
VerifyCatchRethrow(error) ==
  IF IsAxiosError(error)
  THEN Throw(PaymentVerificationError(
               IF error.message # "" THEN error.message ELSE VERIFY_FALLBACK))
  ELSE Throw(error)

\* lines 475-489
VerifyCatch(error) ==
  IF IsAxiosError(error)
  THEN Throw(PaymentVerificationError(
               IF error.message # "" THEN error.message ELSE VERIFY_FALLBACK))
  ELSE Throw(PaymentVerificationError(
               IF InstanceOfError(error) THEN error.message
               ELSE "An unknown error occurred"))

VerifyBegin(cfg, transactionId, clock) ==
  LET c == VerifyConfig(cfg, transactionId, clock)
  IN IF c.threw THEN VerifyCatch(c.err) ELSE c

VerifyEnd(outcome) ==
  IF outcome.threw THEN VerifyCatch(outcome.err) ELSE VerifyTry(outcome.val)

---------------------------------------------------------------------------
(* The facades, lines 496-751: each shapes one call of request() *)

\* String.prototype.toLowerCase, on the network names the model uses (the
\* other names of the model hold no upper-case letter)
ToLowerCase(str) ==
  CASE str = "BSC" -> "bsc"
    [] str = "Sol" -> "sol"
    [] OTHER -> str

\* x.k for any value x: reading a property of undefined or null throws
PropertyOf(x, k) ==
  IF x.t \in {"undefined", "null"}
  THEN Throw(NewError("TypeError", "Cannot read properties of " \o x.t))
  ELSE Return(Get(x, k))

\* What a facade hands to request(): method, endpoint, data, and the caller's
\* object as the facade leaves it
Envelope(method, endpoint, data, arg) ==
  Return([method |-> method, endpoint |-> endpoint, data |-> data, arg |-> arg])

\* lines 504-514: data.networks = data.networks.map(n => n.toLowerCase())
SubaccountsCreateEnvelope(data) ==
  LET networks == Get(data, "networks")
  IN IF networks.t # "array" \/ \E i \in 1..Len(networks.v) : networks.v[i].t # "string"
     THEN Throw(NewError("TypeError", "data.networks.map is not a function"))
     ELSE LET lowered == SetKey(data, "networks",
                 JArr([i \in 1..Len(networks.v) |->
                         JStr(ToLowerCase(networks.v[i].v))]))
          IN Envelope("POST", "/api/v1/assets/subaccount/create", lowered, lowered)

\* lines 529-543: { ...data, ...(data.fromSymbol && { from_symbol }),
\*                  ...(data.toSymbol && { to_symbol }) }
ConversionPreviewEnvelope(data) ==
  LET fromSymbol == Get(data, "fromSymbol")
      toSymbol == Get(data, "toSymbol")
      withFrom == Spread(Spread(EmptyObj, data),
                         IF Truthy(fromSymbol)
                         THEN JObj(<< <<"from_symbol", fromSymbol>> >>)
                         ELSE fromSymbol)
      withTo == Spread(withFrom,
                       IF Truthy(toSymbol)
                       THEN JObj(<< <<"to_symbol", toSymbol>> >>)
                       ELSE toSymbol)
  IN Envelope("POST", "/api/v1/user/preview-convert-asset", withTo, data)

\* lines 726-741: { headers: { Authorization: `Bearer ${accessToken}` } }
BearerData(accessToken) ==
  JObj(<< <<"headers",
            JObj(<< <<"Authorization", JStr("Bearer " \o accessToken.v)>> >>)>> >>)

\* The envelope of each facade; an omitted data argument of request() is
\* its default, {}
FacadeEnvelope(op, arg) ==
  CASE op = "subaccounts.create" -> SubaccountsCreateEnvelope(arg)
    [] op = "conversion.preview" -> ConversionPreviewEnvelope(arg)
    [] op = "transfer.executeTransfer" ->
         Envelope("POST", "/api/v1/transfer/asset", arg, arg)
    [] op = "transfer.getHistory" ->
         Envelope("GET", "/api/v1/transfer/history", arg, arg)
    [] op = "transfer.calculateFee" ->
         Envelope("GET", "/api/v1/transfer/fee", arg, arg)
    [] op = "wallet.getSupportedWallets" ->
         Envelope("GET", "/api/v1/wallet/supported", EmptyObj, arg)
    [] op = "bankTransfer.getBankList" ->
         Envelope("GET", "/api/v1/bank-transfers/banks", EmptyObj, arg)
    [] op = "bankTransfer.verifyBank" ->
         Envelope("POST", "/api/v1/bank-transfers/verify-account", arg, arg)
    [] op = "bankTransfer.transfer" ->
         Envelope("POST", "/api/v1/bank-transfers", arg, arg)
    [] op = "oauth.registerApp" ->
         Envelope("POST", "/api/v1/oauth/register", arg, arg)
    [] op = "oauth.getAuthorizationUrl" ->
         Envelope("GET", "/api/v1/oauth/authorize", arg, arg)
    [] op = "oauth.exchangeCodeForToken" ->
         Envelope("POST", "/api/v1/oauth/token", arg, arg)
    [] op = "oauth.getUserInfo" ->
         Envelope("GET", "/api/v1/oauth/userinfo", BearerData(arg), arg)
    [] op = "oauth.getAppInfo" ->
         Envelope("GET", "/api/v1/oauth/appinfo", BearerData(arg), arg)
    [] op = "oauth.revokeToken" ->
         Envelope("POST", "/api/v1/oauth/revoke",
                  JObj(<< <<"token", arg>> >>), arg)

\* lines 700-703: return response.data.authorizationUrl
AuthorizationUrlOf(response) ==
  LET data == PropertyOf(response, "data")
  IN IF data.threw THEN data ELSE PropertyOf(data.val, "authorizationUrl")

\* What a facade makes of the outcome of its request() call
FacadeEnd(op, r) ==
  IF op = "oauth.getAuthorizationUrl" /\ ~r.threw
  THEN AuthorizationUrlOf(r.val)
  ELSE r

---------------------------------------------------------------------------
(* Bounds and the inputs the model draws *)

\* Date.now() at construction, and how far the clock advances
ClockStart == 9

MaxTicks == 2

\* The longest secret key the signer is probed with
MaxKeyLen == 4

KeyAlphabet == {"a", "b", ";"}

\* The invocations that may be in flight on the client
CallIds == {"c1"}

PublicKeys == {"pk_live", "pk_test"}

BaseUrls == {Undefined, JStr("http://localhost")}

\* Secret keys of the client: none, empty, plain, STATUS;TYPE;TOKEN, two
\* parts, four parts, three parts of which the last is empty, and three
\* empty parts
SecretKeys ==
  {NoKey, Key(<<>>), Key(<<"a">>), Key(<<"a", ";", "b", ";", "a">>),
   Key(<<"a", ";", "b">>), Key(<<"a", ";", "b", ";", "a", ";", "b">>),
   Key(<<"a", ";", "b", ";">>), Key(<<";", ";">>)}

Configs ==
  {Pay100(pk, sk, bu) : pk \in PublicKeys, sk \in SecretKeys, bu \in BaseUrls}

Methods == {"GET", "POST", "PUT", "DELETE"}

Endpoints == {"/x", "/api/test"}

\* Payloads of request(): omitted, empty, plain, and with a headers property
Payloads ==
  {Undefined,
   EmptyObj,
   JObj(<< <<"a", JNum(1)>> >>),
   JObj(<< <<"a", JNum(1)>>, <<"b", Undefined>> >>),
   JObj(<< <<"headers", JObj(<< <<"Authorization", JStr("Bearer t")>> >>)>> >>),
   JObj(<< <<"a", JNum(1)>>,
           <<"headers", JObj(<< <<"x-signature", JStr("forged")>>,
                                <<"api-key", JStr("other")>> >>)>> >>),
   JObj(<< <<"headers", JObj(<< <<"x-secret-key", JStr("other")>> >>)>> >>)}

TransactionIds == {"tx1", ""}

AccessTokens == {JStr("tok")}

\* The argument of each facade
FacadeArgs(op) ==
  CASE op = "subaccounts.create" ->
         {JObj(<< <<"symbols", JArr(<<JStr("USDT")>>)>>,
                  <<"networks", JArr(<<JStr("BSC"), JStr("sol")>>)>> >>),
          JObj(<< <<"symbols", JArr(<<JStr("USDT")>>)>>,
                  <<"networks", JArr(<<JStr("bsc")>>)>> >>)}
    [] op = "conversion.preview" ->
         {JObj(<< <<"amount", JNum(100)>>, <<"fromSymbol", JStr("BTC")>>,
                  <<"toSymbol", JStr("USDT")>>, <<"appId", JStr("app")>> >>),
          JObj(<< <<"amount", JNum(1)>>, <<"fromSymbol", JStr("")>>,
                  <<"toSymbol", JStr("USDT")>> >>)}
    [] op = "transfer.executeTransfer" ->
         {JObj(<< <<"amount", JNum(5)>>, <<"symbol", JStr("USDT")>>,
                  <<"to", JStr("acc")>> >>)}
    [] op = "transfer.getHistory" -> {JObj(<< <<"page", JNum(1)>> >>)}
    [] op = "transfer.calculateFee" -> {JObj(<< <<"symbol", JStr("USDT")>> >>)}
    [] op = "bankTransfer.verifyBank" ->
         {JObj(<< <<"bankCode", JStr("044")>>, <<"accountNumber", JStr("1")>> >>)}
    [] op = "bankTransfer.transfer" -> {JObj(<< <<"amount", JNum(5)>> >>)}
    [] op = "oauth.registerApp" -> {JObj(<< <<"appName", JStr("app")>> >>)}
    [] op = "oauth.getAuthorizationUrl" ->
         {JObj(<< <<"client_id", JStr("id")>>, <<"redirect_uri", JStr("uri")>> >>)}
    [] op = "oauth.exchangeCodeForToken" ->
         {JObj(<< <<"grant_type", JStr("authorization_code")>>,
                  <<"code", JStr("code")>> >>)}
    [] op \in {"oauth.getUserInfo", "oauth.getAppInfo", "oauth.revokeToken"} ->
         AccessTokens
    [] OTHER -> {Undefined}

\* Bodies of a response the transport resolves with
Bodies ==
  {Undefined, Null, JStr(""), JNum(0), JBool(FALSE),
   JStr(ACCESS_DENIED), JStr(INVALID_PAYMENT_ID), JStr("pending"),
   JNum(123), JBool(TRUE), JArr(<<JNum(1)>>),
   EmptyObj,
   JObj(<< <<"amount", JStr("100")>>, <<"currency", JStr("USDT")>> >>),
   JObj(<< <<"success", JBool(TRUE)>>, <<"message", JStr("fine")>> >>),
   JObj(<< <<"success", JBool(FALSE)>>, <<"message", JStr("M")>> >>),
   JObj(<< <<"success", JBool(FALSE)>> >>),
   JObj(<< <<"success", JBool(FALSE)>>, <<"error", JObj(<< <<"code", JStr("E1")>> >>)>> >>),
   JObj(<< <<"success", JStr("false")>> >>),
   JObj(<< <<"success", JNum(0)>>, <<"message", JStr("M")>> >>),
   JObj(<< <<"data", JObj(<< <<"authorizationUrl", JStr("http://auth")>> >>)>> >>)}

\* Bodies of the response an AxiosError carries
ErrorBodies ==
  {Undefined, Null, JStr(""), JNum(0), JBool(FALSE),
   JStr("Not Found"),
   JObj(<< <<"message", JStr("M")>> >>),
   JObj(<< <<"error", JStr("E")>> >>),
   JObj(<< <<"status", JNum(404)>> >>)}

ErrorMessages == {"Request failed with status code 404", ""}

\* What the transport rejects with: an AxiosError without response, with a
\* response, or something that is no AxiosError
Rejections ==
  {AxiosError(m, Undefined) : m \in ErrorMessages}
    \cup {AxiosError(m, JObj(<< <<"status", JNum(404)>>, <<"data", b>> >>)) :
            m \in ErrorMessages, b \in ErrorBodies}
    \cup {AxiosError(m, JObj(<< <<"status", JNum(404)>> >>)) : m \in ErrorMessages}
    \cup {NewError("TypeError", "Invalid URL"), JStr("rejected")}

---------------------------------------------------------------------------
(* The state *)

NoSent == [method |-> "", url |-> "", headers |-> Undefined,
           data |-> Undefined, params |-> Undefined]

NoEnvelope == [method |-> "", endpoint |-> "", data |-> Undefined,
               arg |-> Undefined]

\* An invocation: where it is (idle, inflight at its await, done), what was
\* called with which argument (as the caller passed it), the envelope
\* request() got (with the caller's object as it is then), Date.now() when
\* the headers were built, the call handed to axios, how many calls were
\* handed to axios, the transport's outcome and the invocation's result
IdleCall ==
  [pc |-> "idle", op |-> "", arg |-> Undefined, env |-> NoEnvelope, at |-> 0,
   sent |-> NoSent, nsent |-> 0, reply |-> Return(Undefined),
   result |-> Return(Undefined)]

\* A probe of one private method: the method, its argument, Date.now() when
\* it ran and what it evaluated to
NoProbe == [fn |-> "", arg |-> Undefined, at |-> 0, done |-> FALSE,
            ret |-> Return(Undefined)]

Init ==
  /\ config \in Configs
  /\ now = ClockStart
  /\ calls = [c \in CallIds |-> IdleCall]
  /\ probe = NoProbe

---------------------------------------------------------------------------
(* The operations *)

\* An invocation that ran up to its await: in flight with the call it handed
\* to axios, or done with the error raised before any call was made
Begun(op, arg, env, begin) ==
  IF begin.threw
  THEN [IdleCall EXCEPT !.pc = "done", !.op = op, !.arg = arg, !.env = env,
                        !.at = now, !.result = begin]
  ELSE [IdleCall EXCEPT !.pc = "inflight", !.op = op, !.arg = arg, !.env = env,
                        !.at = now, !.sent = begin.val, !.nsent = 1]

\* await pay100.request(method, endpoint, data), up to the await
Request(c, method, endpoint, data) ==
  /\ calls[c].pc = "idle"
  /\ LET d == IF data.t = "undefined" THEN EmptyObj ELSE data
         env == [method |-> method, endpoint |-> endpoint, data |-> d,
                 arg |-> data]
     IN calls' = [calls EXCEPT ![c] =
                    Begun("request", data, env,
                          RequestBegin(config, method, endpoint, d, now))]
  /\ UNCHANGED <<config, now, probe>>

\* A verify() that stamps its headers with the timestamp of an invocation
\* already in flight, as a timestamp kept on the client would
VerifySharingTimestamp(c, transactionId) ==
  /\ calls[c].pc = "idle"
  /\ LET inflight == {d \in DOMAIN calls : calls[d].pc = "inflight"}
         clock == IF inflight = {} THEN now
                  ELSE calls[CHOOSE d \in inflight : TRUE].at
     IN calls' = [calls EXCEPT ![c] =
                    Begun("verify", JStr(transactionId), NoEnvelope,
                          VerifyBegin(config, transactionId, clock))]
  /\ UNCHANGED <<config, now, probe>>

\* await pay100.verify(transactionId), up to the await
Verify(c, transactionId) ==
  /\ calls[c].pc = "idle"
  /\ calls' = [calls EXCEPT ![c] =
                 Begun("verify", JStr(transactionId), NoEnvelope,
                       VerifyBegin(config, transactionId, now))]
  /\ UNCHANGED <<config, now, probe>>

\* A facade called with arg, up to the await of its request() call
Facade(c, op, arg) ==
  /\ calls[c].pc = "idle"
  /\ LET env == FacadeEnvelope(op, arg)
     IN calls' = [calls EXCEPT ![c] =
                    IF env.threw
                    THEN Begun(op, arg, NoEnvelope, env)
                    ELSE Begun(op, arg, env.val,
                               RequestBegin(config, env.val.method,
                                            env.val.endpoint, env.val.data, now))]
  /\ UNCHANGED <<config, now, probe>>

SubaccountsCreate(c) ==
  \E arg \in FacadeArgs("subaccounts.create") : Facade(c, "subaccounts.create", arg)

ConversionPreview(c) ==
  \E arg \in FacadeArgs("conversion.preview") : Facade(c, "conversion.preview", arg)

TransferExecuteTransfer(c) ==
  \E arg \in FacadeArgs("transfer.executeTransfer") :
    Facade(c, "transfer.executeTransfer", arg)

TransferGetHistory(c) ==
  \E arg \in FacadeArgs("transfer.getHistory") : Facade(c, "transfer.getHistory", arg)

TransferCalculateFee(c) ==
  \E arg \in FacadeArgs("transfer.calculateFee") :
    Facade(c, "transfer.calculateFee", arg)

WalletGetSupportedWallets(c) ==
  \E arg \in FacadeArgs("wallet.getSupportedWallets") :
    Facade(c, "wallet.getSupportedWallets", arg)

BankTransferGetBankList(c) ==
  \E arg \in FacadeArgs("bankTransfer.getBankList") :
    Facade(c, "bankTransfer.getBankList", arg)

BankTransferVerifyBank(c) ==
  \E arg \in FacadeArgs("bankTransfer.verifyBank") :
    Facade(c, "bankTransfer.verifyBank", arg)

BankTransferTransfer(c) ==
  \E arg \in FacadeArgs("bankTransfer.transfer") :
    Facade(c, "bankTransfer.transfer", arg)

OauthRegisterApp(c) ==
  \E arg \in FacadeArgs("oauth.registerApp") : Facade(c, "oauth.registerApp", arg)

OauthGetAuthorizationUrl(c) ==
  \E arg \in FacadeArgs("oauth.getAuthorizationUrl") :
    Facade(c, "oauth.getAuthorizationUrl", arg)

OauthExchangeCodeForToken(c) ==
  \E arg \in FacadeArgs("oauth.exchangeCodeForToken") :
    Facade(c, "oauth.exchangeCodeForToken", arg)

OauthGetUserInfo(c) ==
  \E arg \in FacadeArgs("oauth.getUserInfo") : Facade(c, "oauth.getUserInfo", arg)

OauthGetAppInfo(c) ==
  \E arg \in FacadeArgs("oauth.getAppInfo") : Facade(c, "oauth.getAppInfo", arg)

OauthRevokeToken(c) ==
  \E arg \in FacadeArgs("oauth.revokeToken") : Facade(c, "oauth.revokeToken", arg)

\* The invocation's result for a transport outcome: the rest of verify(),
\* or the rest of request() and then of the facade that awaits it
Settled(op, outcome) ==
  IF op = "verify" THEN VerifyEnd(outcome)
  ELSE FacadeEnd(op, RequestEnd(outcome))

\* A settling that hands a rejected call to the transport once more
SettleRetrying(c, outcome) ==
  /\ calls[c].pc = "inflight"
  /\ calls' = IF outcome.threw /\ calls[c].nsent = 1
              THEN [calls EXCEPT ![c].nsent = 2]
              ELSE [calls EXCEPT ![c].pc = "done", ![c].reply = outcome,
                                 ![c].result = Settled(calls[c].op, outcome)]
  /\ UNCHANGED <<config, now, probe>>

\* The transport settles the call in flight and the invocation runs to its end
Settle(c, outcome) ==
  /\ calls[c].pc = "inflight"
  /\ calls' = [calls EXCEPT ![c].pc = "done", ![c].reply = outcome,
                            ![c].result = Settled(calls[c].op, outcome)]
  /\ UNCHANGED <<config, now, probe>>

\* axios resolves with a response whose decoded body is body
TransportResolve(c) == \E body \in Bodies : Settle(c, Return(body))

\* axios rejects
TransportReject(c) == \E error \in Rejections : Settle(c, Throw(error))

\* The caller has taken the result; the slot is free for the next invocation
Forget(c) ==
  /\ calls[c].pc = "done"
  /\ calls' = [calls EXCEPT ![c] = IdleCall]
  /\ UNCHANGED <<config, now, probe>>

\* The wall clock advances by a millisecond
Tick ==
  /\ now < ClockStart + MaxTicks
  /\ now' = now + 1
  /\ UNCHANGED <<config, calls, probe>>

Next ==
  \/ \E c \in CallIds :
       \/ \E method \in Methods, endpoint \in Endpoints, data \in Payloads :
            Request(c, method, endpoint, data)
       \/ \E transactionId \in TransactionIds : Verify(c, transactionId)
       \/ SubaccountsCreate(c)
       \/ ConversionPreview(c)
       \/ TransferExecuteTransfer(c)
       \/ TransferGetHistory(c)
       \/ TransferCalculateFee(c)
       \/ WalletGetSupportedWallets(c)
       \/ BankTransferGetBankList(c)
       \/ BankTransferVerifyBank(c)
       \/ BankTransferTransfer(c)
       \/ OauthRegisterApp(c)
       \/ OauthGetAuthorizationUrl(c)
       \/ OauthExchangeCodeForToken(c)
       \/ OauthGetUserInfo(c)
       \/ OauthGetAppInfo(c)
       \/ OauthRevokeToken(c)
       \/ TransportResolve(c)
       \/ TransportReject(c)
       \/ Forget(c)
  \/ Tick

Spec == Init /\ [][Next]_vars

---------------------------------------------------------------------------
(* The signer on its own: createSignature for every short secret key *)

\* All texts over KeyAlphabet of at most n characters
RECURSIVE KeysUpTo(_)
KeysUpTo(n) ==
  IF n = 0 THEN {<<>>}
  ELSE LET shorter == KeysUpTo(n - 1)
       IN shorter \cup {Append(cs, ch) : cs \in shorter, ch \in KeyAlphabet}

SignPayloads ==
  {EmptyObj,
   JObj(<< <<"transactionId", JStr("tx1")>> >>),
   JObj(<< <<"a", JNum(1)>>, <<"b", Undefined>>, <<"c", JArr(<<Null, JBool(TRUE)>>)>> >>),
   JObj(<< <<"self", Self>> >>)}

InitSign ==
  /\ config \in {Pay100("pk_live", k, Undefined) :
                   k \in {NoKey} \cup {Key(cs) : cs \in KeysUpTo(MaxKeyLen)}}
  /\ now = ClockStart
  /\ calls = [c \in CallIds |-> IdleCall]
  /\ probe \in {[NoProbe EXCEPT !.fn = "createSignature", !.arg = payload] :
                  payload \in SignPayloads}

\* this.createSignature(payload)
Sign ==
  /\ probe.fn = "createSignature"
  /\ ~probe.done
  /\ probe' = [probe EXCEPT !.done = TRUE, !.at = now,
                            !.ret = createSignature(config, probe.arg, now)]
  /\ UNCHANGED <<config, now, calls>>

NextSign == Sign \/ Tick

SpecSign == InitSign /\ [][NextSign]_vars

---------------------------------------------------------------------------
(* The error normalizer on its own: extractErrorMessage for every body    *)
(* built from the properties it reads                                     *)

Absent == [t |-> "absent", v |-> 0]

MessageValues == {Absent, JStr("A"), JNum(5), Undefined}

ErrorValues ==
  {Absent, JStr("E"), JStr(""), Null, JNum(5), EmptyObj, Self,
   JArr(<<JStr("x")>>),
   JObj(<< <<"message", JStr("B")>> >>),
   JObj(<< <<"message", JStr("B")>>, <<"code", JStr("E0")>> >>),
   JObj(<< <<"code", JStr("E1")>> >>),
   JObj(<< <<"message", JNum(1)>>, <<"code", JStr("E2")>> >>),
   JObj(<< <<"code", JNum(7)>> >>)}

DataValues ==
  {Absent, JStr("d"), Null, EmptyObj, Self,
   JObj(<< <<"message", JStr("M")>> >>),
   JObj(<< <<"message", JStr("M")>>, <<"error", JObj(<< <<"message", JStr("N0")>> >>)>> >>),
   JObj(<< <<"error", JObj(<< <<"message", JStr("N")>> >>)>> >>),
   JObj(<< <<"error", JStr("x")>> >>),
   JObj(<< <<"error", Self>> >>),
   JObj(<< <<"error", JObj(<< <<"code", JStr("E3")>> >>)>> >>)}

StatusTextValues == {Absent, JStr("Not Found"), JNum(404)}

OtherValues == {Absent, JNum(1), Self}

\* The object with the given properties, the absent ones left out
ObjectOf(pairs) == JObj(SelectSeq(pairs, LAMBDA p : p[2].t # "absent"))

ExtractInputs ==
  {Undefined, Null, JStr(""), JStr("plain"), JNum(0), JNum(7), JBool(FALSE),
   JBool(TRUE), JArr(<<>>), JArr(<<JNum(1)>>)}
  \cup {ObjectOf(<< <<"code", c>>, <<"self", o>>, <<"statusText", st>>,
                    <<"data", d>>, <<"error", e>>, <<"message", m>> >>) :
          c \in {Absent, JStr("C")}, o \in OtherValues, st \in StatusTextValues,
          d \in DataValues, e \in ErrorValues, m \in MessageValues}

InitExtract ==
  /\ config \in {Pay100("pk_live", NoKey, Undefined)}
  /\ now = ClockStart
  /\ calls = [c \in CallIds |-> IdleCall]
  /\ probe \in {[NoProbe EXCEPT !.fn = "extractErrorMessage", !.arg = data] :
                  data \in ExtractInputs}

\* this.extractErrorMessage(data)
Extract ==
  /\ probe.fn = "extractErrorMessage"
  /\ ~probe.done
  /\ probe' = [probe EXCEPT !.done = TRUE, !.at = now,
                            !.ret = extractErrorMessage(probe.arg)]
  /\ UNCHANGED <<config, now, calls>>

NextExtract == Extract \/ Tick

SpecExtract == InitExtract /\ [][NextExtract]_vars

---------------------------------------------------------------------------
(* The client with the argument of its constructor kept beside it *)

\* Base URLs supplied to the constructor: none, a server, the empty text
\* and the default itself
ConstructorBaseUrls ==
  BaseUrls \cup {JStr(""), JStr(DEFAULT_BASE_URL)}

\* The object literal handed to new Pay100(...): a property that is not
\* supplied is absent
ConfigLiteral(publicKey, secretKey, baseUrl) ==
  JObj(<< <<"publicKey", JStr(publicKey)>> >>
       \o (IF secretKey.t = "undefined" THEN << >>
           ELSE << <<"secretKey", JStr(Str(secretKey.cs))>> >>)
       \o (IF baseUrl.t = "undefined" THEN << >>
           ELSE << <<"baseUrl", baseUrl>> >>))

\* The state after new Pay100(literal), with the literal kept in probe.arg
InitConstruct ==
  \E pk \in PublicKeys, sk \in SecretKeys, bu \in ConstructorBaseUrls :
    /\ config = Pay100(pk, sk, bu)
    /\ now = ClockStart
    /\ calls = [c \in CallIds |-> IdleCall]
    /\ probe = [NoProbe EXCEPT !.fn = "constructor",
                               !.arg = ConfigLiteral(pk, sk, bu),
                               !.at = ClockStart, !.done = TRUE]

SpecConstruct == InitConstruct /\ [][Next]_vars

---------------------------------------------------------------------------
(* Two invocations on one client, interleaving at their awaits *)

Invocations == {"c1", "c2"}

ConcurrentConfigs ==
  {Pay100("pk_live", sk, Undefined) :
     sk \in {NoKey, Key(<<"a">>), Key(<<"a", ";", "b", ";", "a">>),
             Key(<<"a", ";", "b", ";">>)}}

ConcurrentMethods == {"GET", "POST"}

ConcurrentPayloads ==
  {Undefined,
   JObj(<< <<"a", JNum(1)>> >>),
   JObj(<< <<"headers", JObj(<< <<"Authorization", JStr("Bearer t")>> >>)>> >>)}

ConcurrentBodies ==
  {Undefined, JNum(123),
   JObj(<< <<"amount", JStr("100")>>, <<"currency", JStr("USDT")>> >>),
   JObj(<< <<"success", JBool(FALSE)>>, <<"message", JStr("M")>> >>)}

ConcurrentRejections ==
  {AxiosError("Request failed with status code 404", Undefined),
   AxiosError("Request failed with status code 404",
              JObj(<< <<"status", JNum(404)>>,
                      <<"data", JObj(<< <<"message", JStr("M")>> >>)>> >>)),
   JStr("rejected")}

InitConcurrent ==
  /\ config \in ConcurrentConfigs
  /\ now = ClockStart
  /\ calls = [c \in Invocations |-> IdleCall]
  /\ probe = NoProbe

ConcurrentRequest(c) ==
  \E method \in ConcurrentMethods, data \in ConcurrentPayloads :
    Request(c, method, "/x", data)

ConcurrentVerify(c) ==
  \E transactionId \in TransactionIds : Verify(c, transactionId)

ConcurrentResolve(c) == \E body \in ConcurrentBodies : Settle(c, Return(body))

ConcurrentReject(c) == \E error \in ConcurrentRejections : Settle(c, Throw(error))

NextConcurrent ==
  \/ \E c \in Invocations :
       \/ ConcurrentRequest(c)
       \/ ConcurrentVerify(c)
       \/ ConcurrentResolve(c)
       \/ ConcurrentReject(c)
       \/ Forget(c)
  \/ Tick

SpecConcurrent == InitConcurrent /\ [][NextConcurrent]_vars

---------------------------------------------------------------------------
(* The claims *)

\* An invocation that handed a call to axios
Dispatched(c) == calls[c].pc \in {"inflight", "done"} /\ calls[c].nsent = 1

\* The client was constructed with a secret key: a non-empty text.  (An
\* empty text is no key: getHeaders takes it for public mode.)
HasSecretKey(cfg) == cfg.secretKey.t = "string" /\ Len(cfg.secretKey.cs) > 0

\* text s begins with text prefix
StartsWith(s, prefix) ==
  Len(s) >= Len(prefix) /\ SubSeq(s, 1, Len(prefix)) = prefix

\* C1: the headers of every call handed to axios hold x-timestamp,
\* x-signature and x-secret-key if and only if the client has a secret key;
\* without one they are exactly api-key and Content-Type: application/json.
C1_SignedHeadersIffSecretKey ==
  \A c \in CallIds :
    Dispatched(c) =>
      LET h == calls[c].sent.headers
      IN /\ HasKey(h, "x-timestamp") <=> HasSecretKey(config)
         /\ HasKey(h, "x-signature") <=> HasSecretKey(config)
         /\ HasKey(h, "x-secret-key") <=> HasSecretKey(config)
         /\ ~HasSecretKey(config) =>
              h = JObj(<< <<"api-key", JStr(config.publicKey)>>,
                          <<"Content-Type", JStr("application/json")>> >>)

\* C1 witness: a client with a secret key has a signed call in flight whose
\* payload carries its own headers property.
C1_Witness ==
  \E c \in CallIds :
    /\ Dispatched(c)
    /\ HasSecretKey(config)
    /\ HasKey(calls[c].env.data, "headers")
    /\ HasKey(calls[c].sent.headers, "x-signature")
    /\ HasKey(calls[c].sent.headers, "x-timestamp")

\* The number of ";" in a key, and the text after its last ";"
SeparatorCount(cs) == Cardinality({i \in 1..Len(cs) : cs[i] = ";"})

AfterLastSeparator(cs) ==
  LET last == CHOOSE i \in 1..Len(cs) :
                cs[i] = ";" /\ \A j \in (i + 1)..Len(cs) : cs[j] # ";"
  IN SubSeq(cs, last + 1, Len(cs))

\* The HMAC key the claim names: the third part of A;B;C, else the whole key
ClaimedSigningKey(cs) ==
  IF SeparatorCount(cs) = 2 THEN AfterLastSeparator(cs) ELSE cs

\* C2: createSignature keys the HMAC with the third part of a secret key of
\* exactly three ";"-delimited parts and with the whole key otherwise; when
\* that key is the empty text it signs nothing and throws.
C2_SigningKeyIsThirdPartOrWhole ==
  (probe.fn = "createSignature" /\ probe.done
   /\ config.secretKey.t = "string" /\ ~HasCycle(probe.arg)) =>
    LET k == ClaimedSigningKey(config.secretKey.cs)
    IN IF k = <<>>
       THEN /\ probe.ret.threw
            /\ probe.ret.err.message = "Secret key is required for signing"
       ELSE /\ ~probe.ret.threw
            /\ probe.ret.val.signature =
                 HmacSha256Hex(Str(k), NumToString(probe.at) \o Stringify(probe.arg))

\* C2 witness: a key b;;a was signed with, and the HMAC key is "a".
C2_Witness ==
  /\ probe.fn = "createSignature"
  /\ probe.done
  /\ config.secretKey = Key(<<"b", ";", ";", "a">>)
  /\ probe.arg = JObj(<< <<"transactionId", JStr("tx1")>> >>)
  /\ ~probe.ret.threw
  /\ probe.ret.val.signature =
       HmacSha256Hex("a", NumToString(probe.at) \o "{\"transactionId\":\"tx1\"}")

\* The payload of an invocation: what it passes to getHeaders and to axios
PayloadOf(c) ==
  CASE calls[c].op = "verify" -> JObj(<< <<"transactionId", calls[c].arg>> >>)
    [] calls[c].op = "request" ->
         (IF calls[c].arg.t = "undefined" THEN EmptyObj ELSE calls[c].arg)
    [] OTHER -> calls[c].env.data

\* C3: in secret mode the x-signature header of every call is the hex
\* HMAC-SHA256, keyed with the derived signing secret, of the timestamp
\* followed by JSON.stringify(payload); x-timestamp is that timestamp,
\* Date.now() in decimal; and the signed payload is the one sent as the body
\* or as the query parameters.
C3_SignatureHeaderIsHmacOfSentPayload ==
  \A c \in CallIds :
    (Dispatched(c) /\ HasSecretKey(config)) =>
      LET h == calls[c].sent.headers
          timestamp == NumToString(calls[c].at)
          key == Str(ClaimedSigningKey(config.secretKey.cs))
      IN /\ Get(h, "x-signature") =
              JStr(HmacSha256Hex(key, timestamp \o Stringify(PayloadOf(c))))
         /\ Get(h, "x-timestamp") = JStr(timestamp)
         /\ PayloadOf(c) = (IF calls[c].sent.method = "GET"
                            THEN calls[c].sent.params ELSE calls[c].sent.data)

\* C4: request() dispatches to baseUrl followed by the endpoint; a GET
\* carries the payload as query parameters and no body, the other methods
\* carry it as the body and no query parameters; an omitted payload is {}.
C4_RequestDispatch ==
  \A c \in CallIds :
    (Dispatched(c) /\ calls[c].op = "request") =>
      LET payload == IF calls[c].arg = Undefined THEN EmptyObj ELSE calls[c].arg
          sent == calls[c].sent
      IN /\ sent.url = config.baseUrl \o calls[c].env.endpoint
         /\ sent.method = calls[c].env.method
         /\ sent.method = "GET" => sent.params = payload /\ sent.data = Undefined
         /\ sent.method \in {"POST", "PUT", "DELETE"} =>
              sent.data = payload /\ sent.params = Undefined

\* C4 witness: a GET without payload is in flight with params {} and no body.
C4_Witness ==
  \E c \in CallIds :
    /\ calls[c].pc = "inflight"
    /\ calls[c].op = "request"
    /\ calls[c].arg = Undefined
    /\ calls[c].sent.method = "GET"
    /\ calls[c].sent.url = "https://api.100pay.co/api/test"
    /\ calls[c].sent.params = EmptyObj
    /\ calls[c].sent.data = Undefined

\* The body is an object with a property success that is the boolean false
LogicalFailure(body) ==
  /\ body.t = "object"
  /\ \E i \in 1..Len(body.v) : body.v[i] = <<"success", JBool(FALSE)>>

\* C5: when the transport resolves, request() raises "API Request Failed: "
\* followed by extractErrorMessage(body) if and only if the body is an
\* object whose success property is the boolean false; every other body is
\* returned as it is.
C5_LogicalFailureIffSuccessFalse ==
  \A c \in CallIds :
    (calls[c].pc = "done" /\ calls[c].op = "request" /\ calls[c].nsent = 1
     /\ ~calls[c].reply.threw) =>
      LET body == calls[c].reply.val
          r == calls[c].result
      IN IF LogicalFailure(body)
         THEN /\ r.threw
              /\ r.err.t = "error"
              /\ r.err.kind = "Error"
              /\ r.err.message =
                   "API Request Failed: " \o extractErrorMessage(body).val.v
         ELSE r = Return(body)

\* C5 witness: the body {success: false, message: "M"} has raised
\* "API Request Failed: M".
C5_Witness ==
  \E c \in CallIds :
    /\ calls[c].pc = "done"
    /\ calls[c].op = "request"
    /\ calls[c].reply =
         Return(JObj(<< <<"success", JBool(FALSE)>>, <<"message", JStr("M")>> >>))
    /\ calls[c].result.threw
    /\ calls[c].result.err.message = "API Request Failed: M"

\* The response body an AxiosError carries, if it carries one.  (A body
\* that is "", 0, false or null is no body: the catch block tests it for
\* truth.)
CarriesResponseBody(error) ==
  /\ error.response.t = "object"
  /\ HasKey(error.response, "data")
  /\ Get(error.response, "data") \notin
       {Undefined, Null, JStr(""), JNum(0), JBool(FALSE)}

C7_EveryErrorHasPrefix ==
  \A c \in CallIds :
    (calls[c].pc = "done" /\ calls[c].op # "verify" /\ calls[c].result.threw) =>
      /\ calls[c].result.err.t = "error"
      /\ StartsWith(calls[c].result.err.message, "API Request Failed: ")

\* C8: extractErrorMessage returns a string and throws for no input; for a
\* self-referential object without message, error, data and statusText it
\* returns "Unknown error occurred".
C8_ExtractNeverThrows ==
  (probe.fn = "extractErrorMessage" /\ probe.done) =>
    /\ ~probe.ret.threw
    /\ probe.ret.val.t = "string"
    /\ (HasCycle(probe.arg)
        /\ \A k \in {"message", "error", "data", "statusText"} :
             ~HasKey(probe.arg, k)) =>
         probe.ret.val = JStr("Unknown error occurred")

\* C8 witness: {self: itself} was normalized to "Unknown error occurred".
C8_Witness ==
  /\ probe.fn = "extractErrorMessage"
  /\ probe.done
  /\ probe.arg = JObj(<< <<"self", Self>> >>)
  /\ probe.ret = Return(JStr("Unknown error occurred"))

\* x is an object other than null (a property that refers back to the body
\* b is the body)
IsObject(x) == x.t \in {"object", "array", "self"}

\* Property k of x is a string, and its text
HasString(b, x, k) == IsObject(x) /\ Read(b, x, k).t = "string"

TextOf(b, x, k) ==
  IF HasString(b, x, k) THEN Read(b, x, k).v ELSE ""

\* The rules of the claim, in its order: whether each matches body b
ClaimedRuleMatches(b) ==
  LET error == Read(b, b, "error")
      data == Read(b, b, "data")
  IN << b.t = "string",
        ~IsObject(b),
        HasString(b, b, "message"),
        error.t = "string",
        HasString(b, error, "message"),
        HasString(b, error, "code"),
        HasString(b, data, "message"),
        IsObject(data) /\ HasString(b, Read(b, data, "error"), "message"),
        HasString(b, b, "statusText"),
        TRUE >>

\* What the rule at place i yields for body b
ClaimedRuleResult(b, i) ==
  LET error == Read(b, b, "error")
      data == Read(b, b, "data")
  IN CASE i = 1 -> b.v
       [] i = 2 -> "Unknown error"
       [] i = 3 -> TextOf(b, b, "message")
       [] i = 4 -> error.v
       [] i = 5 -> TextOf(b, error, "message")
       [] i = 6 -> "Error code: " \o TextOf(b, error, "code")
       [] i = 7 -> TextOf(b, data, "message")
       [] i = 8 -> TextOf(b, Read(b, data, "error"), "message")
       [] i = 9 -> TextOf(b, b, "statusText")
       [] i = 10 -> "Error details: " \o Stringify(b)

\* The first rule of the claim that matches body b
ClaimedFirstRule(b) ==
  CHOOSE i \in 1..10 :
    ClaimedRuleMatches(b)[i] /\ \A j \in 1..(i - 1) : ~ClaimedRuleMatches(b)[j]

\* C9: extractErrorMessage returns the result of the first matching rule of
\* (1) string body, (2) not an object or null, (3) string message,
\* (4) string error, else error.message, else "Error code: " + error.code,
\* (5) data.message, else data.error.message, (6) string statusText,
\* (7) "Error details: " + the JSON serialization (of a body that has one).
C9_ExtractFirstMatchingRule ==
  (probe.fn = "extractErrorMessage" /\ probe.done) =>
    /\ (ClaimedFirstRule(probe.arg) < 10 \/ ~HasCycle(probe.arg)) =>
         probe.ret =
           Return(JStr(ClaimedRuleResult(probe.arg, ClaimedFirstRule(probe.arg))))
    /\ probe.arg = JObj(<< <<"error", JObj(<< <<"message", JStr("B")>> >>)>>,
                           <<"message", JStr("A")>> >>) =>
         probe.ret = Return(JStr("A"))
    /\ probe.arg = JObj(<< <<"error", JObj(<< <<"code", JStr("E1")>> >>)>> >>) =>
         probe.ret = Return(JStr("Error code: E1"))

\* C9 witness: {error: {code: "E1"}} was normalized to "Error code: E1".
C9_Witness ==
  /\ probe.fn = "extractErrorMessage"
  /\ probe.done
  /\ probe.arg = JObj(<< <<"error", JObj(<< <<"code", JStr("E1")>> >>)>> >>)
  /\ probe.ret = Return(JStr("Error code: E1"))

UnrecognizedBody(c) ==
  /\ calls[c].pc = "done"
  /\ calls[c].op = "verify"
  /\ calls[c].nsent = 1
  /\ ~calls[c].reply.threw
  /\ Truthy(calls[c].reply.val)
  /\ calls[c].reply.val.t \in {"string", "number", "boolean"}
  /\ calls[c].reply.val \notin {JStr(ACCESS_DENIED), JStr(INVALID_PAYMENT_ID)}

\* verify() returned status "success"
VerifySucceeded(c) ==
  /\ calls[c].pc = "done"
  /\ calls[c].op = "verify"
  /\ ~calls[c].result.threw
  /\ Get(calls[c].result.val, "status") = JStr("success")

C12_NonObjectBodyIsSuccessEmpty ==
  \A c \in CallIds :
    (UnrecognizedBody(c) /\ calls[c].reply.val.t \in {"number", "boolean"}) =>
      /\ ~calls[c].result.threw
      /\ Get(calls[c].result.val, "status") = JStr("success")
      /\ Get(calls[c].result.val, "data") = EmptyObj

\* What made verify() fail: the error the transport rejected with, or the
\* signer's error when no call was made
VerifyCause(c) ==
  IF calls[c].nsent = 1 THEN calls[c].reply.err
  ELSE [t |-> "error", kind |-> "Error",
        message |-> "Secret key is required for signing",
        response |-> Undefined, status |-> Undefined, data |-> Undefined]

\* The message the claim gives the error verify() raises for a cause
ClaimedVerifyMessage(cause) ==
  IF cause.t # "error" THEN "An unknown error occurred"
  ELSE IF cause.kind = "AxiosError"
  THEN (IF cause.message = ""
        THEN "Something went wrong, be sure you supplied a valid payment id."
        ELSE cause.message)
  ELSE cause.message

\* C13: every error verify() raises, whether the transport rejected, the
\* signer failed or anything else was thrown, is a PaymentVerificationError
\* with status "error" and data {}; its message is the transport error's
\* message, the fallback when that is empty, the message of another Error,
\* or "An unknown error occurred" for a value that is no Error.
C13_VerifyRaisesPaymentVerificationError ==
  \A c \in CallIds :
    (calls[c].pc = "done" /\ calls[c].op = "verify") =>
      /\ calls[c].result.threw <=> (calls[c].nsent = 0 \/ calls[c].reply.threw)
      /\ calls[c].result.threw =>
           LET e == calls[c].result.err
           IN /\ e.t = "error"
              /\ e.kind = "PaymentVerificationError"
              /\ e.status = JStr("error")
              /\ e.data = EmptyObj
              /\ e.message = ClaimedVerifyMessage(VerifyCause(c))

\* C13 witness: the transport rejected verify("tx1") with a transport error
\* of empty message, and verify() raised the fallback.
C13_Witness ==
  \E c \in CallIds :
    /\ calls[c].pc = "done"
    /\ calls[c].op = "verify"
    /\ calls[c].reply.threw
    /\ calls[c].reply.err.t = "error"
    /\ calls[c].reply.err.kind = "AxiosError"
    /\ calls[c].reply.err.message = ""
    /\ calls[c].result.threw
    /\ calls[c].result.err.kind = "PaymentVerificationError"
    /\ calls[c].result.err.message =
         "Something went wrong, be sure you supplied a valid payment id."

\* C14: the call verify(transactionId) hands to the transport is a POST to
\* baseUrl + "/api/v1/pay/crypto/payment/" + transactionId whose body is
\* exactly {transactionId}, without query parameters; its headers are those
\* of the auth mode for that payload: in secret mode x-signature is the HMAC
\* of the timestamp followed by {"transactionId":"<id>"}.
C14_VerifyCall ==
  \A c \in CallIds :
    (Dispatched(c) /\ calls[c].op = "verify") =>
      LET id == calls[c].arg.v
          sent == calls[c].sent
          timestamp == NumToString(calls[c].at)
          message == timestamp \o "{\"transactionId\":\"" \o id \o "\"}"
      IN /\ sent.method = "POST"
         /\ sent.url = config.baseUrl \o "/api/v1/pay/crypto/payment/" \o id
         /\ sent.data = JObj(<< <<"transactionId", JStr(id)>> >>)
         /\ sent.params = Undefined
         /\ sent.headers =
              (IF HasSecretKey(config)
               THEN JObj(<< <<"api-key", JStr(config.publicKey)>>,
                            <<"x-secret-key", JStr(Str(config.secretKey.cs))>>,
                            <<"x-timestamp", JStr(timestamp)>>,
                            <<"x-signature",
                              JStr(HmacSha256Hex(
                                     Str(ClaimedSigningKey(config.secretKey.cs)),
                                     message))>>,
                            <<"Content-Type", JStr("application/json")>> >>)
               ELSE JObj(<< <<"api-key", JStr(config.publicKey)>>,
                            <<"Content-Type", JStr("application/json")>> >>))

\* C14 witness: a client with the key a;b;a and the default base URL has
\* verify("tx1") in flight, a millisecond after its construction.
C14_Witness ==
  \E c \in CallIds :
    /\ calls[c].pc = "inflight"
    /\ calls[c].op = "verify"
    /\ calls[c].arg = JStr("tx1")
    /\ calls[c].at = ClockStart + 1
    /\ config.secretKey = Key(<<"a", ";", "b", ";", "a">>)
    /\ calls[c].sent.url = "https://api.100pay.co/api/v1/pay/crypto/payment/tx1"
    /\ Get(calls[c].sent.headers, "x-signature") =
         JStr(HmacSha256Hex("a", NumToString(ClockStart + 1)
                                   \o "{\"transactionId\":\"tx1\"}"))

\* C15: publicKey and secretKey are the values handed to the constructor
\* and baseUrl is the one handed to it or, when none was, the default
\* https://api.100pay.co; this holds after construction and after every
\* sequence of verify(), request() and facade calls, whatever their outcome.
C15_ConfigurationIsWhatWasSupplied ==
  probe.fn = "constructor" =>
    LET supplied == probe.arg
    IN /\ JStr(config.publicKey) = Get(supplied, "publicKey")
       /\ IF HasKey(supplied, "secretKey")
          THEN /\ config.secretKey.t = "string"
               /\ JStr(Str(config.secretKey.cs)) = Get(supplied, "secretKey")
          ELSE config.secretKey.t = "undefined"
       /\ IF HasKey(supplied, "baseUrl")
          THEN JStr(config.baseUrl) = Get(supplied, "baseUrl")
          ELSE config.baseUrl = "https://api.100pay.co"

\* C15 witness: a client constructed with a secret key and its own base URL
\* has made a call that failed, and a later one is in flight.
C15_Witness ==
  \E c \in CallIds :
    /\ probe.fn = "constructor"
    /\ Get(probe.arg, "baseUrl") = JStr("http://localhost")
    /\ HasKey(probe.arg, "secretKey")
    /\ config.baseUrl = "http://localhost"
    /\ now > ClockStart
    /\ calls[c].pc = "done"
    /\ calls[c].result.threw

\* request() or verify() was invoked in slot c (a facade that ran invoked
\* request())
Invoked(c) ==
  /\ calls[c].pc \in {"inflight", "done"}
  /\ calls[c].op = "verify" \/ calls[c].env # NoEnvelope

\* The client's headers can be built: it has no secret key, or a secret key
\* whose signing part is not empty
HeadersCanBeBuilt ==
  HasSecretKey(config) => ClaimedSigningKey(config.secretKey.cs) # <<>>

\* C16: an invocation of request() or verify() hands at most one call to
\* the transport, and exactly one when its headers could be built; when
\* the transport rejects, or resolves request() with a logical failure,
\* the invocation ends with an error and no further call.
C16_OneCallNoRetry ==
  \A c \in CallIds :
    /\ calls[c].nsent \in {0, 1}
    /\ Invoked(c) => (calls[c].nsent = 1 <=> HeadersCanBeBuilt)
    /\ (Invoked(c) /\ calls[c].pc = "done" /\ calls[c].nsent = 1
        /\ (calls[c].reply.threw
            \/ (calls[c].op # "verify" /\ LogicalFailure(calls[c].reply.val)))) =>
         calls[c].result.threw

\* C16 witness: the transport rejected the one call of a request(), which
\* ended with an error.
C16_Witness ==
  \E c \in CallIds :
    /\ calls[c].pc = "done"
    /\ calls[c].op = "request"
    /\ calls[c].nsent = 1
    /\ calls[c].reply.threw
    /\ calls[c].result.threw

\* The call of invocation c is made of its own arguments and timestamp: the
\* URL of its own endpoint or transaction id, its own payload as the body or
\* the query parameters, and in secret mode its own timestamp and the HMAC
\* of that timestamp followed by its own payload
OwnCall(c) ==
  LET sent == calls[c].sent
      timestamp == NumToString(calls[c].at)
  IN /\ sent.url =
          (IF calls[c].op = "verify"
           THEN config.baseUrl \o "/api/v1/pay/crypto/payment/" \o calls[c].arg.v
           ELSE config.baseUrl \o calls[c].env.endpoint)
     /\ PayloadOf(c) = (IF sent.method = "GET" THEN sent.params ELSE sent.data)
     /\ Get(sent.headers, "api-key") = JStr(config.publicKey)
     /\ HasSecretKey(config) =>
          /\ Get(sent.headers, "x-timestamp") = JStr(timestamp)
          /\ Get(sent.headers, "x-signature") =
               JStr(HmacSha256Hex(Str(ClaimedSigningKey(config.secretKey.cs)),
                                  timestamp \o Stringify(PayloadOf(c))))

\* Two finished invocations with the same arguments and the same transport
\* outcome have the same result, whatever ran beside them
SameOutcome(c, d) ==
  (/\ calls[c].pc = "done" /\ calls[d].pc = "done"
   /\ calls[c].op = calls[d].op /\ calls[c].arg = calls[d].arg
   /\ calls[c].env = calls[d].env /\ calls[c].nsent = calls[d].nsent
   /\ calls[c].reply = calls[d].reply) =>
    calls[c].result = calls[d].result

\* A step leaves every invocation but one as it was, and an invocation in
\* flight changes only by settling: its arguments, timestamp and call stay
OwnStep ==
  /\ \A c, d \in DOMAIN calls :
       c # d => calls'[c] = calls[c] \/ calls'[d] = calls[d]
  /\ \A c \in DOMAIN calls :
       (calls[c].pc = "inflight" /\ calls'[c] # calls[c]) =>
         /\ calls'[c].pc = "done"
         /\ calls'[c] = [calls[c] EXCEPT !.pc = "done",
                                         !.reply = calls'[c].reply,
                                         !.result = calls'[c].result]

\* C17: with several request() and verify() invocations in flight on one
\* client, settling in any order, each invocation's URL, headers and
\* signature are made of its own arguments and timestamp, its result or
\* error is decided by its own arguments and transport response, no step
\* of one invocation touches another, and the configuration never changes.
C17_InvocationsAreIndependent ==
  [][/\ config' = config
     /\ OwnStep
     /\ \A c \in DOMAIN calls' :
          (calls'[c].pc \in {"inflight", "done"} /\ calls'[c].nsent = 1) =>
            OwnCall(c)'
     /\ \A c, d \in DOMAIN calls' : SameOutcome(c, d)']_vars

\* C17 witness: two invocations overlapped and settled out of order: the
\* one begun first is still in flight, the one begun a millisecond later
\* has ended.
C17_Witness ==
  /\ DOMAIN calls = {"c1", "c2"}
  /\ HasSecretKey(config)
  /\ calls["c1"].pc = "inflight"
  /\ calls["c1"].op = "verify"
  /\ calls["c1"].at = ClockStart
  /\ calls["c2"].pc = "done"
  /\ calls["c2"].op = "request"
  /\ calls["c2"].at = ClockStart + 1
  /\ calls["c2"].nsent = 1
  /\ Get(calls["c1"].sent.headers, "x-timestamp") = JStr(NumToString(ClockStart))
  /\ Get(calls["c2"].sent.headers, "x-timestamp") =
       JStr(NumToString(ClockStart + 1))

\* C18: conversion.preview issues a POST to
\* /api/v1/user/preview-convert-asset whose body holds the symbols as
\* from_symbol and to_symbol and no fromSymbol or toSymbol key: for
\* {amount, fromSymbol, toSymbol, appId} the body is exactly
\* {amount, from_symbol, to_symbol, appId}.
C18_PreviewRenamesSymbols ==
  \A c \in CallIds :
    (Dispatched(c) /\ calls[c].op = "conversion.preview") =>
      LET sent == calls[c].sent
          arg == calls[c].arg
      IN /\ sent.method = "POST"
         /\ sent.url = config.baseUrl \o "/api/v1/user/preview-convert-asset"
         /\ ~HasKey(sent.data, "fromSymbol")
         /\ ~HasKey(sent.data, "toSymbol")
         /\ Keys(arg) = <<"amount", "fromSymbol", "toSymbol", "appId">> =>
              /\ Len(sent.data.v) = 4
              /\ Get(sent.data, "amount") = Get(arg, "amount")
              /\ Get(sent.data, "from_symbol") = Get(arg, "fromSymbol")
              /\ Get(sent.data, "to_symbol") = Get(arg, "toSymbol")
              /\ Get(sent.data, "appId") = Get(arg, "appId")

\* C19: the headers of every call are fixed by the auth mode, whatever the
\* payload holds: api-key is the configured publicKey and Content-Type is
\* application/json; in secret mode x-secret-key, x-timestamp and
\* x-signature are the client's own values; there is no other header.
C19_HeadersDeterminedByMode ==
  \A c \in CallIds :
    Dispatched(c) =>
      LET timestamp == NumToString(calls[c].at)
      IN calls[c].sent.headers =
           (IF HasSecretKey(config)
            THEN JObj(<< <<"api-key", JStr(config.publicKey)>>,
                         <<"x-secret-key", JStr(Str(config.secretKey.cs))>>,
                         <<"x-timestamp", JStr(timestamp)>>,
                         <<"x-signature",
                           JStr(HmacSha256Hex(
                                  Str(ClaimedSigningKey(config.secretKey.cs)),
                                  timestamp \o Stringify(PayloadOf(c))))>>,
                         <<"Content-Type", JStr("application/json")>> >>)
            ELSE JObj(<< <<"api-key", JStr(config.publicKey)>>,
                         <<"Content-Type", JStr("application/json")>> >>))

\* Invocation c failed with the signer's error (verify() raises it as a
\* PaymentVerificationError with the same message)
FailedInSigner(c) ==
  /\ calls[c].pc = "done"
  /\ calls[c].result.threw
  /\ calls[c].result.err.t = "error"
  /\ calls[c].result.err.message = "Secret key is required for signing"

\* C20, as stated: whatever the configuration, no call of request() or
\* verify() fails with "Secret key is required for signing".
C20_SignerNeverFails ==
  \A c \in CallIds : ~FailedInSigner(c)

\* The secret key has three ";"-delimited parts of which the third is empty
EmptyTokenKey(cfg) ==
  /\ cfg.secretKey.t = "string"
  /\ SeparatorCount(cfg.secretKey.cs) = 2
  /\ cfg.secretKey.cs[Len(cfg.secretKey.cs)] = ";"

\* C20, amended: a call of request() or verify() fails with "Secret key is
\* required for signing" exactly when the secret key has three
\* ";"-delimited parts of which the third is empty, and then before any
\* call is handed to the transport; without a secret key, or with the
\* empty text for one, the signer is not invoked and the call is made.
C20_SignerFailsOnlyForEmptyToken ==
  \A c \in CallIds :
    Invoked(c) =>
      /\ FailedInSigner(c) <=> EmptyTokenKey(config)
      /\ FailedInSigner(c) => calls[c].nsent = 0
      /\ ~HasSecretKey(config) =>
           /\ calls[c].nsent = 1
           /\ ~HasKey(calls[c].sent.headers, "x-signature")

\* C20 witness: a client with the key a;b;a has a request() in flight,
\* signed with the third part of the key.
C20_Witness ==
  \E c \in CallIds :
    /\ Invoked(c)
    /\ config.secretKey = Key(<<"a", ";", "b", ";", "a">>)
    /\ calls[c].op = "request"
    /\ calls[c].arg = Undefined
    /\ calls[c].pc = "inflight"
    /\ calls[c].nsent = 1
    /\ Get(calls[c].sent.headers, "x-signature") =
         JStr(HmacSha256Hex("a", NumToString(calls[c].at) \o "{}"))

Contains(s, x) ==
  \E i \in 1..(Len(s) - Len(x) + 1) : SubSeq(s, i, i + Len(x) - 1) = x

\* C22: when request() fails on a transport error whose own message is X
\* and whose response body is an object with a string message M other than
\* X, the message of the error request() raises holds X.
C22_RaisedMessageHoldsTransportMessage ==
  \A c \in CallIds :
    (/\ calls[c].pc = "done" /\ calls[c].op = "request"
     /\ calls[c].reply.threw
     /\ calls[c].reply.err.t = "error"
     /\ calls[c].reply.err.kind = "AxiosError"
     /\ ResponseData(calls[c].reply.err).t = "object"
     /\ Get(ResponseData(calls[c].reply.err), "message").t = "string"
     /\ Get(ResponseData(calls[c].reply.err), "message").v
          # calls[c].reply.err.message) =>
      /\ calls[c].result.threw
      /\ calls[c].result.err.t = "error"
      /\ Contains(calls[c].result.err.message, calls[c].reply.err.message)

\* C23: in secret mode the x-secret-key header of every call is the whole
\* configured secret key, also for a key STATUS;TYPE;TOKEN of which only
\* the third part keys the HMAC.
C23_SecretKeyHeaderIsWholeKey ==
  \A c \in CallIds :
    (Dispatched(c) /\ HasSecretKey(config)) =>
      Get(calls[c].sent.headers, "x-secret-key") =
        JStr(Str(config.secretKey.cs))

\* What the rules after error give for body b: data.message, else
\* data.error.message, else statusText, else the serialization (or its
\* fallback for a body that has none)
AfterErrorRules(b) ==
  LET data == Read(b, b, "data")
  IN IF HasString(b, data, "message") THEN TextOf(b, data, "message")
     ELSE IF IsObject(data) /\ HasString(b, Read(b, data, "error"), "message")
     THEN TextOf(b, Read(b, data, "error"), "message")
     ELSE IF HasString(b, b, "statusText") THEN TextOf(b, b, "statusText")
     ELSE IF HasCycle(b) THEN "Unknown error occurred"
     ELSE "Error details: " \o Stringify(b)

\* The error property of body b yields no message: it is no string and no
\* object with a string message or a string code
ErrorYieldsNothing(b) ==
  LET error == Read(b, b, "error")
  IN /\ error.t # "string"
     /\ ~HasString(b, error, "message")
     /\ ~HasString(b, error, "code")

\* C24: in extractErrorMessage a property that is present without yielding
\* a message does not end the cascade: with a message that is no string
\* the error rules apply, and with an error that yields nothing the later
\* rules do (data.message, data.error.message, statusText, serialization);
\* {error: {}, data: {message: "M"}} gives "M", {message: 5, error: "E"}
\* gives "E".
C24_FruitlessFieldDoesNotStopCascade ==
  (probe.fn = "extractErrorMessage" /\ probe.done /\ probe.arg.t = "object") =>
    LET b == probe.arg
        error == Read(b, b, "error")
    IN /\ (HasKey(b, "message") /\ ~HasString(b, b, "message")
           /\ HasKey(b, "error") /\ ~ErrorYieldsNothing(b)) =>
            probe.ret =
              Return(JStr(IF error.t = "string" THEN error.v
                          ELSE IF HasString(b, error, "message")
                          THEN TextOf(b, error, "message")
                          ELSE "Error code: " \o TextOf(b, error, "code")))
       /\ (~HasString(b, b, "message") /\ HasKey(b, "error")
           /\ ErrorYieldsNothing(b)) =>
            probe.ret = Return(JStr(AfterErrorRules(b)))
       /\ b = JObj(<< <<"data", JObj(<< <<"message", JStr("M")>> >>)>>,
                      <<"error", EmptyObj>> >>) =>
            probe.ret = Return(JStr("M"))
       /\ b = JObj(<< <<"error", JStr("E")>>, <<"message", JNum(5)>> >>) =>
            probe.ret = Return(JStr("E"))

\* C24 witness: {data: {message: "M"}, error: {}} was normalized to "M".
C24_Witness ==
  /\ probe.fn = "extractErrorMessage"
  /\ probe.done
  /\ probe.arg = JObj(<< <<"data", JObj(<< <<"message", JStr("M")>> >>)>>,
                         <<"error", EmptyObj>> >>)
  /\ probe.ret = Return(JStr("M"))

\* The transport rejected the call of invocation c with an error whose
\* response has a body that is present and falsy: "", 0, false or null
FalsyErrorBody(c) ==
  /\ calls[c].pc = "done"
  /\ calls[c].nsent = 1
  /\ calls[c].reply.threw
  /\ calls[c].reply.err.t = "error"
  /\ calls[c].reply.err.kind = "AxiosError"
  /\ calls[c].reply.err.response.t = "object"
  /\ HasKey(calls[c].reply.err.response, "data")
  /\ Get(calls[c].reply.err.response, "data")
       \in {JStr(""), JNum(0), JBool(FALSE), Null}

\* C25: for a transport error whose response body is present and falsy,
\* request() raises "API Request Failed: " followed by the transport
\* error's own message, not by what the body normalizes to ("" for the
\* empty string, "Unknown error" for 0, false and null).
C25_FalsyBodyGivesTransportMessage ==
  \A c \in CallIds :
    (FalsyErrorBody(c) /\ calls[c].op = "request") =>
      LET body == Get(calls[c].reply.err.response, "data")
          normalized == IF body.t = "string" THEN body.v ELSE "Unknown error"
      IN /\ calls[c].result.threw
         /\ calls[c].result.err.t = "error"
         /\ calls[c].result.err.message =
              "API Request Failed: " \o calls[c].reply.err.message
         /\ normalized # calls[c].reply.err.message =>
              calls[c].result.err.message # "API Request Failed: " \o normalized

\* C25 witness: a request() was rejected with "Request failed with status
\* code 404" and the body 0, and raised the transport's message.
C25_Witness ==
  \E c \in CallIds :
    /\ FalsyErrorBody(c)
    /\ calls[c].op = "request"
    /\ Get(calls[c].reply.err.response, "data") = JNum(0)
    /\ calls[c].result.threw
    /\ calls[c].result.err.message =
         "API Request Failed: Request failed with status code 404"

\* C26: no facade modifies the object its caller supplies: once the facade
\* has run, the caller's object (data.networks of subaccounts.create too)
\* is as it was passed.
C26_FacadeLeavesArgument ==
  \A c \in CallIds :
    (calls[c].pc \in {"inflight", "done"}
     /\ calls[c].op \notin {"request", "verify"}
     /\ calls[c].env # NoEnvelope) =>
      calls[c].env.arg = calls[c].arg

\* Invocation c is a dispatched oauth.getUserInfo or oauth.getAppInfo
BearerCall(c) ==
  /\ Dispatched(c)
  /\ calls[c].op \in {"oauth.getUserInfo", "oauth.getAppInfo"}

\* C27: in secret mode and in public mode the call of
\* oauth.getUserInfo(accessToken) and of oauth.getAppInfo(accessToken)
\* carries the header Authorization: "Bearer " + accessToken.
C27_BearerHeaderSent ==
  \A c \in CallIds :
    BearerCall(c) =>
      Get(calls[c].sent.headers, "Authorization") =
        JStr("Bearer " \o calls[c].arg.v)

\* The serialization of value x holds the text
Mentions(x, text) ==
  x.t \notin {"undefined", "null"} /\ Contains(Stringify(x), text)

\* C28: the access token of oauth.getUserInfo and oauth.getAppInfo travels
\* in the Authorization header only: neither the query parameters nor the
\* body of the call holds it.
C28_TokenOnlyInHeader ==
  \A c \in CallIds :
    BearerCall(c) =>
      /\ ~Mentions(calls[c].sent.params, calls[c].arg.v)
      /\ ~Mentions(calls[c].sent.data, calls[c].arg.v)

\* C29: verify() has no logical-failure check: for a resolved body that is
\* an object with success false it raises nothing and returns
\* {status: "success", data: body}.
C29_VerifyIgnoresSuccessFalse ==
  \A c \in CallIds :
    (calls[c].pc = "done" /\ calls[c].op = "verify" /\ calls[c].nsent = 1
     /\ ~calls[c].reply.threw
     /\ calls[c].reply.val.t = "object"
     /\ HasKey(calls[c].reply.val, "success")
     /\ Get(calls[c].reply.val, "success") = JBool(FALSE)) =>
      calls[c].result =
        Return(JObj(<< <<"status", JStr("success")>>,
                       <<"data", calls[c].reply.val>> >>))

\* C29 witness: verify("tx1") got {success: false, message: "M"} and
\* returned it as the data of a success.
C29_Witness ==
  \E c \in CallIds :
    /\ calls[c].pc = "done"
    /\ calls[c].op = "verify"
    /\ calls[c].arg = JStr("tx1")
    /\ calls[c].reply =
         Return(JObj(<< <<"success", JBool(FALSE)>>, <<"message", JStr("M")>> >>))
    /\ ~calls[c].result.threw
    /\ Get(calls[c].result.val, "status") = JStr("success")
    /\ Get(calls[c].result.val, "data") =
         JObj(<< <<"success", JBool(FALSE)>>, <<"message", JStr("M")>> >>)

\* How often text x occurs in text s
Occurrences(s, x) ==
  Cardinality({i \in 1..(Len(s) - Len(x) + 1) : SubSeq(s, i, i + Len(x) - 1) = x})

\* C30: the error request() raises for a logical failure goes through the
\* catch of its try block unchanged: it is a plain Error whose message is
\* exactly "API Request Failed: " followed by the normalized body, with
\* the prefix once.
C30_LogicalFailurePassesCatchUnchanged ==
  \A c \in CallIds :
    (calls[c].pc = "done" /\ calls[c].op = "request" /\ calls[c].nsent = 1
     /\ ~calls[c].reply.threw /\ LogicalFailure(calls[c].reply.val)) =>
      LET body == calls[c].reply.val
          normalized == ClaimedRuleResult(body, ClaimedFirstRule(body))
      IN /\ calls[c].result.threw
         /\ calls[c].result.err =
              [t |-> "error", kind |-> "Error",
               message |-> "API Request Failed: " \o normalized,
               response |-> Undefined, status |-> Undefined, data |-> Undefined]
         /\ Occurrences(calls[c].result.err.message, "API Request Failed: ") = 1

\* C30 witness: request() got {success: false, message: "M"} and raised
\* "API Request Failed: M".
C30_Witness ==
  \E c \in CallIds :
    /\ calls[c].pc = "done"
    /\ calls[c].op = "request"
    /\ calls[c].reply =
         Return(JObj(<< <<"success", JBool(FALSE)>>, <<"message", JStr("M")>> >>))
    /\ calls[c].result.threw
    /\ calls[c].result.err.message = "API Request Failed: M"

=============================================================================
